---- MODULE Spec2Model ----
(***************************************************************************)
(* NVONFeeder: the windowed permutation search of feeder/nvonsim.py.       *)
(* A sequential driver runs, window after window, a pool of worker         *)
(* processes that each launch one simulator run; the results are           *)
(* aggregated (processStats), the best run is chosen (getBest) and its     *)
(* bundle is merged into the seed file of the next window.                 *)
(***************************************************************************)
EXTENDS Integers, Sequences, FiniteSets, TLC

\* ------------------------------------------------------------------ bounds
\* most lines of a window's job_permut_list.txt
MaxTraces == 2
\* largest --procs value explored
MaxCores == 2
\* largest nrWindows of workload.json explored
MaxWindows == 3
\* longest result list given to the pure functions
MaxStats == 3

\* ------------------------------------------------- Python dict, as a value
\* A dict is the sequence of its <<key, value>> items in insertion order,
\* keys pairwise distinct.
Keys(d) == {d[n][1] : n \in 1..Len(d)}

HasKey(d, k) == k \in Keys(d)

DictGet(d, k) == d[CHOOSE n \in 1..Len(d) : d[n][1] = k][2]

\* d[k] = v : an existing key keeps its position, a new key goes last.
DictSet(d, k, v) ==
    IF HasKey(d, k)
    THEN [n \in 1..Len(d) |-> IF d[n][1] = k THEN <<k, v>> ELSE d[n]]
    ELSE Append(d, <<k, v>>)

\* dict equality of Python: same keys, same values, whatever the order.
DictEq(d, e) ==
    /\ Keys(d) = Keys(e)
    /\ \A k \in Keys(d) : DictGet(d, k) = DictGet(e, k)

RECURSIVE UpdateFrom(_, _, _)
UpdateFrom(d, e, n) ==
    IF n > Len(e) THEN d
    ELSE UpdateFrom(DictSet(d, e[n][1], e[n][2]), e, n + 1)

\* Mutation of DictUpdate: only the keys already present are overwritten.
DictUpdateExistingOnly(d, e) ==
    [n \in 1..Len(d) |->
        IF HasKey(e, d[n][1]) THEN <<d[n][1], DictGet(e, d[n][1])>> ELSE d[n]]

\* Line 267: d.update(e)
DictUpdate(d, e) == UpdateFrom(d, e, 1)

\* sorted(d.items()) of a dict with integer keys, as an OrderedDict.
RECURSIVE SortedItems(_)
SortedItems(d) ==
    IF d = <<>> THEN <<>>
    ELSE LET m == CHOOSE n \in 1..Len(d) : \A j \in 1..Len(d) : d[n][1] <= d[j][1]
             rest == [n \in 1..(Len(d) - 1) |-> IF n < m THEN d[n] ELSE d[n + 1]]
         IN  <<d[m]>> \o SortedItems(rest)

\* A JSON file's text is the sequence of the members of its top-level
\* object, each a record [name, value], in file order.
\* json.load: a repeated name keeps its first position and its last value.
RECURSIVE LoadFrom(_, _, _)
LoadFrom(d, text, n) ==
    IF n > Len(text) THEN d
    ELSE LoadFrom(DictSet(d, text[n].name, text[n].value), text, n + 1)

JsonLoad(text) == LoadFrom(<<>>, text, 1)

\* json.dump: one member per item, in the dict's order.
JsonDump(d) == [n \in 1..Len(d) |-> [name |-> d[n][1], value |-> d[n][2]]]

\* ------------------------------------------------ simulator output tokens
\* result.stdout.split() is a sequence of strings.  int() and float() accept
\* the numeric literals below and raise ValueError on anything else.
IntOf == ("17" :> 17) @@ ("42" :> 42)

\* float values are kept in hundredths.
FloatOf == ("0.5" :> 50) @@ ("0.9" :> 90)

\* --------------------------------------------------------- processStats
NoStats == [raised |-> "none", meanUtil |-> <<>>, totalSec |-> <<>>, traceFile |-> <<>>]

Raise(acc, what) == [acc EXCEPT !.raised = what]

\* Mutation of StatStep: the mean utilisation is always stored under key 0.
StatStepUtilKeyZero(acc, stat) ==
    LET id == stat[1]
        tok == stat[2]
    IN  IF Len(tok) < 2 THEN Raise(acc, "IndexError")
        ELSE IF tok[2] \notin DOMAIN IntOf THEN Raise(acc, "ValueError")
        ELSE IF Len(tok) < 3 THEN Raise(acc, "IndexError")
        ELSE IF tok[3] \notin DOMAIN FloatOf THEN Raise(acc, "ValueError")
        ELSE [acc EXCEPT !.totalSec = DictSet(@, id, IntOf[tok[2]]),
                         !.meanUtil = DictSet(@, 0, FloatOf[tok[3]]),
                         !.traceFile = DictSet(@, id, tok[1])]

\* One pass of the loop body over stat = (id, tokens); tokens[1] is stat[1][0].
StatStep(acc, stat) ==
    LET id == stat[1]
        tok == stat[2]
    IN  IF Len(tok) < 2 THEN Raise(acc, "IndexError")
        ELSE IF tok[2] \notin DOMAIN IntOf THEN Raise(acc, "ValueError")
        ELSE IF Len(tok) < 3 THEN Raise(acc, "IndexError")
        ELSE IF tok[3] \notin DOMAIN FloatOf THEN Raise(acc, "ValueError")
        ELSE [acc EXCEPT !.totalSec = DictSet(@, id, IntOf[tok[2]]),
                         !.meanUtil = DictSet(@, id, FloatOf[tok[3]]),
                         !.traceFile = DictSet(@, id, tok[1])]

RECURSIVE StatLoop(_, _, _)
StatLoop(acc, stats, n) ==
    IF n > Len(stats) \/ acc.raised # "none" THEN acc
    ELSE StatLoop(StatStep(acc, stats[n]), stats, n + 1)

\* Mutation of processStats: totalSec is left in insertion order.
processStatsUnsorted(stats) == StatLoop(NoStats, stats, 1)

processStats(stats) ==
    LET acc == StatLoop(NoStats, stats, 1)
    IN  IF acc.raised # "none" THEN acc
        ELSE [acc EXCEPT !.meanUtil = SortedItems(@), !.totalSec = SortedItems(@)]

\* --------------------------------------------------------------- getBest
RECURSIVE FirstWith(_, _, _)
FirstWith(d, v, n) == IF d[n][2] = v THEN d[n][1] ELSE FirstWith(d, v, n + 1)

\* Mutation of MinValue: the value of the first item, whatever the others.
FirstValue(d) == d[1][2]

\* Line 50: min(totalSec.values())
MinValue(d) == CHOOSE v \in {d[n][2] : n \in 1..Len(d)} :
                   \A n \in 1..Len(d) : v <= d[n][2]

\* min() of an empty sequence raises ValueError.
getBest(tStats) ==
    IF tStats.totalSec = <<>>
    THEN [raised |-> "ValueError", bestTrace |-> "", bTime |-> 0, bpoint |-> 0]
    ELSE LET mintotalSec == MinValue(tStats.totalSec)
             minTimeRunsPnt == FirstWith(tStats.totalSec, mintotalSec, 1)
         IN  [raised |-> "none", bestTrace |-> DictGet(tStats.traceFile, minTimeRunsPnt),
              bTime |-> mintotalSec, bpoint |-> minTimeRunsPnt]

\* ------------------------------------------------------------ environment
\* What one simulator process can do: its exit status and the tokens of its
\* standard output (results file, total time, mean utilization).
SimOutcomes ==
    { [returncode |-> 0, tokens |-> <<"a.json", "17", "0.5">>],
      [returncode |-> 0, tokens |-> <<"b.json", "17", "0.5">>],
      [returncode |-> 0, tokens |-> <<"b.json", "42", "0.9">>],
      [returncode |-> 0, tokens |-> <<"gone.json", "42", "0.5">>],
      [returncode |-> 1, tokens |-> <<>>],
      [returncode |-> 1, tokens |-> <<"a.json", "42", "0.5">>],
      [returncode |-> 0, tokens |-> <<"a.json", "17">>] }

\* The JSON files the simulator's first token can name ("gone.json" does
\* not exist).  b.json repeats a member name.
ResultFiles ==
    ("a.json" :> << [name |-> "j1", value |-> "A"] >>) @@
    ("b.json" :> << [name |-> "j2", value |-> "A"],
                    [name |-> "j1", value |-> "B"],
                    [name |-> "j2", value |-> "B"] >>)

\* tmp/winInitTrace_<k>.json, for every k a window can have
SeedPaths == [k \in 0..(MaxWindows + 1) |-> "winInitTrace_" \o ToString(k) \o ".json"]

\* Mutation of SeedPath: one seed file, rewritten in place by every window.
SeedPathInPlace(k) == SeedPaths[1]

SeedPath(k) == SeedPaths[k]

\* os.path.join(runDir, trace) of the k-th line of window w's list
TraceNames ==
    [w \in 0..MaxWindows, k \in 0..MaxTraces |->
        "win_" \o ToString(w) \o "/perm_" \o ToString(k)]

TraceName(w, k) == TraceNames[w, k]

\* results/win_<i>, its win_<i>_best.log and the two graphs of saveGraphs.
ResultPaths ==
    [w \in 0..MaxWindows |->
        [dir |-> "results/win_" \o ToString(w),
         files |-> { "results/win_" \o ToString(w) \o "/win_" \o ToString(w) \o "_best.log",
                     "results/win_" \o ToString(w) \o "/util_best.png",
                     "results/win_" \o ToString(w) \o "/totalSec_best.png" }]]

WindowArtifacts(w) == ResultPaths[w].files

\* ------------------------------------------------------------------ state
VARIABLES
    pc,         \* the driver's position: load, submit, join, process, done, crashed
    i,          \* the window being processed
    nrWindows,  \* workloadInfo['nrWindows']
    procs,      \* args.procs, the `cores` of startSim
    traces,     \* the trace names of window i, in list order
    winInitTrace, \* startSim's seed path argument ("" = no seed)
    id,         \* startSim's id counter
    tasks,      \* the pool's tasks in submission order, each with its state
    lck,        \* the manager lock: 0 when free, else the index of its holder
    stats,      \* the shared result list
    nextWinInitTraceFile, \* path of the seed file written last
    fs,         \* the JSON files on disk: path -> text
    artifacts,  \* the write-only outputs on disk (directories, logs, graphs)
    exitStatus, \* how the driver ended ("" while it runs)
    wins,       \* history: the winning bundle of each processed window
    fnIn,       \* input of the pure-function checks
    fnOut       \* their output

vars == <<pc, i, nrWindows, procs, traces, winInitTrace, id, tasks, lck, stats,
          nextWinInitTraceFile, fs, artifacts, exitStatus, wins, fnIn, fnOut>>

poolVars == <<tasks, lck, stats>>
driverVars == <<pc, i, nrWindows, procs, traces, winInitTrace, id,
                nextWinInitTraceFile, fs, artifacts, exitStatus, wins>>
fnVars == <<fnIn, fnOut>>

NoBest == [raised |-> "none", bestTrace |-> "", bTime |-> 0, bpoint |-> 0]

NoInput == [op |-> "none", stats |-> <<>>, a |-> <<>>, b |-> <<>>, c |-> <<>>]

NoOutput == [tStats |-> NoStats, best |-> NoBest, afterA |-> <<>>, afterB |-> <<>>,
             again |-> <<>>]

\* State at line 187: directories made, traces copied, workload.json read.
Init ==
    /\ pc = "load"
    /\ i = 0
    /\ nrWindows \in 0..MaxWindows
    /\ procs \in 1..MaxCores
    /\ traces = <<>>
    /\ winInitTrace = ""
    /\ id = 0
    /\ tasks = <<>>
    /\ lck = 0
    /\ stats = <<>>
    /\ nextWinInitTraceFile = ""
    /\ fs = ResultFiles
    /\ artifacts = {}
    /\ exitStatus = ""
    /\ wins = <<>>
    /\ fnIn = NoInput
    /\ fnOut = NoOutput

\* ------------------------------------------------------------- the driver
\* Lines 191-200 / 227-237 up to the call, and startSim's lines 129-133:
\* read the window's trace list, make its result directory, create the pool,
\* the lock and the empty result list.
LoadWindow ==
    /\ pc = "load"
    /\ \E n \in 0..MaxTraces :
           traces' = [k \in 1..n |-> TraceName(i, k - 1)]
    /\ artifacts' = artifacts \cup {ResultPaths[i].dir}
    /\ winInitTrace' = IF i = 0 THEN "" ELSE nextWinInitTraceFile
    /\ id' = 0
    /\ tasks' = <<>>
    /\ lck' = 0
    /\ stats' = <<>>
    /\ pc' = "submit"
    /\ UNCHANGED <<i, nrWindows, procs, nextWinInitTraceFile, fs, exitStatus, wins>>
    /\ UNCHANGED fnVars

\* Mutation of Submit: every task is given the last trace of the list.
SubmitLastTrace ==
    /\ pc = "submit"
    /\ id < Len(traces)
    /\ tasks' = Append(tasks, [tracefile |-> traces[Len(traces)], initTrace |-> winInitTrace,
                               id |-> id, st |-> "queued", exec |-> <<>>,
                               returncode |-> 0, tokens |-> <<>>])
    /\ id' = id + 1
    /\ UNCHANGED <<pc, i, nrWindows, procs, traces, winInitTrace, lck, stats,
                   nextWinInitTraceFile, fs, artifacts, exitStatus, wins>>
    /\ UNCHANGED fnVars

\* Mutation of Submit: the counter is incremented before the task is made.
SubmitIdAfterIncrement ==
    /\ pc = "submit"
    /\ id < Len(traces)
    /\ tasks' = Append(tasks, [tracefile |-> traces[id + 1], initTrace |-> winInitTrace,
                               id |-> id + 1, st |-> "queued", exec |-> <<>>,
                               returncode |-> 0, tokens |-> <<>>])
    /\ id' = id + 1
    /\ UNCHANGED <<pc, i, nrWindows, procs, traces, winInitTrace, lck, stats,
                   nextWinInitTraceFile, fs, artifacts, exitStatus, wins>>
    /\ UNCHANGED fnVars

\* Lines 134-138: one pass of the submission loop (apply_async).
Submit ==
    /\ pc = "submit"
    /\ id < Len(traces)
    /\ tasks' = Append(tasks, [tracefile |-> traces[id + 1], initTrace |-> winInitTrace,
                               id |-> id, st |-> "queued", exec |-> <<>>,
                               returncode |-> 0, tokens |-> <<>>])
    /\ id' = id + 1
    /\ UNCHANGED <<pc, i, nrWindows, procs, traces, winInitTrace, lck, stats,
                   nextWinInitTraceFile, fs, artifacts, exitStatus, wins>>
    /\ UNCHANGED fnVars

\* Line 139: pool.close() after the loop.
Close ==
    /\ pc = "submit"
    /\ id = Len(traces)
    /\ pc' = "join"
    /\ UNCHANGED <<i, nrWindows, procs, traces, winInitTrace, id, tasks, lck, stats,
                   nextWinInitTraceFile, fs, artifacts, exitStatus, wins>>
    /\ UNCHANGED fnVars

\* Mutation of AllTasksDone: the barrier only waits for the queue to drain.
QueueDrained == \A k \in 1..Len(tasks) : tasks[k].st # "queued"

\* pool.join() returns when the workers have exited: every task has run.
AllTasksDone == \A k \in 1..Len(tasks) : tasks[k].st = "done"

\* Lines 140-141: the barrier; startSim returns the result list.
Join ==
    /\ pc = "join"
    /\ AllTasksDone
    /\ pc' = "process"
    /\ UNCHANGED <<i, nrWindows, procs, traces, winInitTrace, id, tasks, lck, stats,
                   nextWinInitTraceFile, fs, artifacts, exitStatus, wins>>
    /\ UNCHANGED fnVars

\* Mutation of NextSeed: the winner's bundle alone is carried forward.
NextSeedWinnerOnly(prevWinInitTraces, nextWinInitTraces) == nextWinInitTraces

\* Lines 267-268: prevWinInitTraces.update(nextWinInitTraces).
NextSeed(prevWinInitTraces, nextWinInitTraces) ==
    DictUpdate(prevWinInitTraces, nextWinInitTraces)

\* Mutation of Crash: the abort rolls the run directory back to its inputs.
CrashRollback(how) ==
    /\ pc' = "crashed"
    /\ exitStatus' = how
    /\ fs' = ResultFiles
    /\ UNCHANGED <<i, nextWinInitTraceFile, wins>>

\* An uncaught exception, or exit(-1) / exit(-2) at lines 218, 258 and 265:
\* the driver stops where it is and nothing on disk is touched.
Crash(how) ==
    /\ pc' = "crashed"
    /\ exitStatus' = how
    /\ UNCHANGED <<i, nextWinInitTraceFile, fs, wins>>

\* Lines 219-221 / 269-271, then the loop's next pass or the end.
WriteSeed(bundle, winner) ==
    /\ nextWinInitTraceFile' = SeedPath(i + 1)
    /\ fs' = [p \in DOMAIN fs \cup {SeedPath(i + 1)} |->
                 IF p = SeedPath(i + 1) THEN JsonDump(bundle) ELSE fs[p]]
    /\ wins' = Append(wins, winner)
    /\ IF i + 1 < nrWindows
       THEN pc' = "load" /\ i' = i + 1 /\ exitStatus' = exitStatus
       ELSE pc' = "done" /\ i' = i /\ exitStatus' = "ok"

\* Lines 212-218 (window 0) and 251-268 (later windows).
AdvanceSeed(bestTrace) ==
    IF i = 0
    THEN IF bestTrace \in DOMAIN fs
         THEN WriteSeed(JsonLoad(fs[bestTrace]), JsonLoad(fs[bestTrace]))
         ELSE Crash("exit(-2)")
    ELSE IF nextWinInitTraceFile \notin DOMAIN fs THEN Crash("exit(-1)")
         ELSE IF bestTrace \notin DOMAIN fs THEN Crash("exit(-2)")
         ELSE WriteSeed(NextSeed(JsonLoad(fs[nextWinInitTraceFile]),
                                 JsonLoad(fs[bestTrace])),
                        JsonLoad(fs[bestTrace]))

\* Lines 201-221 / 238-271: after the barrier the driver aggregates, selects
\* the best run, writes the log and the graphs and advances the seed.  An
\* exception raised by processStats or getBest is not caught: the driver dies.
ProcessWindow ==
    /\ pc = "process"
    /\ LET traceStats == processStats(stats)
           best == getBest(traceStats)
       IN  IF traceStats.raised # "none"
           THEN Crash(traceStats.raised) /\ UNCHANGED artifacts
           ELSE IF best.raised # "none"
           THEN Crash(best.raised) /\ UNCHANGED artifacts
           ELSE /\ artifacts' = artifacts \cup WindowArtifacts(i)
                /\ AdvanceSeed(best.bestTrace)
    /\ UNCHANGED <<nrWindows, procs, traces, winInitTrace, id>>
    /\ UNCHANGED poolVars
    /\ UNCHANGED fnVars

\* --------------------------------------------------------------- the pool
\* Mutation of PoolSize: one worker process too many.
PoolSizeOneMore(cores) == cores + 1

\* Line 129: multiprocessing.Pool(cores) starts `cores` worker processes.
PoolSize(cores) == cores

\* The tasks a worker process is executing.
Busy == {k \in 1..Len(tasks) : tasks[k].st \in {"run", "wait", "append"}}

\* The simulator invocations in flight (subprocess.run has not returned).
InFlight == {k \in 1..Len(tasks) : tasks[k].st = "run"}

\* Mutation of Exec: the seed argument is never passed.
ExecNoSeed(tracefile, initTrace) == <<"main.py", "-t", tracefile, "-f", "logs">>

\* Lines 104-108: the command line of the simulator.
Exec(tracefile, initTrace) ==
    <<"main.py", "-t", tracefile, "-f", "logs">>
    \o (IF initTrace # "" THEN <<"-i", initTrace>> ELSE <<>>)

\* An idle worker takes the oldest queued task and launches the simulator
\* (lines 104-109, up to the start of subprocess.run).
Dispatch(k) ==
    /\ k \in 1..Len(tasks)
    /\ tasks[k].st = "queued"
    /\ \A j \in 1..(k - 1) : tasks[j].st # "queued"
    /\ Cardinality(Busy) < PoolSize(procs)
    /\ tasks' = [tasks EXCEPT ![k].st = "run",
                              ![k].exec = Exec(tasks[k].tracefile, tasks[k].initTrace)]
    /\ UNCHANGED <<lck, stats>>
    /\ UNCHANGED driverVars
    /\ UNCHANGED fnVars

\* Lines 109-111: the simulator exits; its output is captured and split.
Finish(k) ==
    /\ k \in 1..Len(tasks)
    /\ tasks[k].st = "run"
    /\ \E o \in SimOutcomes :
           tasks' = [tasks EXCEPT ![k].st = "wait",
                                  ![k].returncode = o.returncode,
                                  ![k].tokens = o.tokens]
    /\ UNCHANGED <<lck, stats>>
    /\ UNCHANGED driverVars
    /\ UNCHANGED fnVars

\* Mutation of Acquire: the worker enters the block without the lock being free.
AcquireNoWait(k) ==
    /\ k \in 1..Len(tasks)
    /\ tasks[k].st = "wait"
    /\ lck' = k
    /\ tasks' = [tasks EXCEPT ![k].st = "append"]
    /\ UNCHANGED stats
    /\ UNCHANGED driverVars
    /\ UNCHANGED fnVars

\* Line 112: with lck (entry): the worker holds the lock.
Acquire(k) ==
    /\ k \in 1..Len(tasks)
    /\ tasks[k].st = "wait"
    /\ lck = 0
    /\ lck' = k
    /\ tasks' = [tasks EXCEPT ![k].st = "append"]
    /\ UNCHANGED stats
    /\ UNCHANGED driverVars
    /\ UNCHANGED fnVars

\* Mutation of AppendResult: the output of a failed process is not recorded.
AppendOnlyOnSuccess(k) ==
    /\ k \in 1..Len(tasks)
    /\ tasks[k].st = "append"
    /\ stats' = IF tasks[k].returncode = 0
                THEN Append(stats, <<tasks[k].id, tasks[k].tokens>>)
                ELSE stats
    /\ lck' = 0
    /\ tasks' = [tasks EXCEPT ![k].st = "done"]
    /\ UNCHANGED driverVars
    /\ UNCHANGED fnVars

\* Lines 112-113: stats.append((id, result.stdout.split())) and the exit of
\* the with block, which releases the lock; the task is complete.
AppendResult(k) ==
    /\ k \in 1..Len(tasks)
    /\ tasks[k].st = "append"
    /\ stats' = Append(stats, <<tasks[k].id, tasks[k].tokens>>)
    /\ lck' = 0
    /\ tasks' = [tasks EXCEPT ![k].st = "done"]
    /\ UNCHANGED driverVars
    /\ UNCHANGED fnVars

Next ==
    \/ LoadWindow
    \/ Submit
    \/ Close
    \/ Join
    \/ ProcessWindow
    \/ \E k \in 1..MaxTraces : Dispatch(k)
    \/ \E k \in 1..MaxTraces : Finish(k)
    \/ \E k \in 1..MaxTraces : Acquire(k)
    \/ \E k \in 1..MaxTraces : AppendResult(k)

Spec == Init /\ [][Next]_vars

\* The file system under the driver: the seed file written last disappears
\* before the driver looks for it at line 253 (os.path.exists is the only
\* place where the driver depends on the file being there).
RemoveSeedFile ==
    /\ pc = "process"
    /\ i >= 1
    /\ nextWinInitTraceFile \in DOMAIN fs
    /\ fs' = [p \in DOMAIN fs \ {nextWinInitTraceFile} |-> fs[p]]
    /\ UNCHANGED <<pc, i, nrWindows, procs, traces, winInitTrace, id,
                   nextWinInitTraceFile, artifacts, exitStatus, wins>>
    /\ UNCHANGED poolVars
    /\ UNCHANGED fnVars

NextEnv ==
    \/ Next
    \/ RemoveSeedFile

\* The driver and its pool with a file system that can lose the seed file.
SpecEnv == Init /\ [][NextEnv]_vars

\* ---------------------------------------- the pure functions on their own
\* Result lists as the Run Pool can return them: one entry per identifier
\* 0..n-1, in any completion order, each with the tokens of some outcome.
TokenChoices == {o.tokens : o \in SimOutcomes}

StatsInputs ==
    UNION { { s \in [1..n -> (0..(n - 1)) \X TokenChoices] :
                \A x, y \in 1..n : x # y => s[x][1] # s[y][1] } : n \in 0..MaxStats }

\* Seed bundles: dicts over the member names and values of the result files.
BundleNames == {"j1", "j2"}
BundleValues == {"A", "B"}

Bundles ==
    UNION { { d \in [1..n -> BundleNames \X BundleValues] :
                \A x, y \in 1..n : x # y => d[x][1] # d[y][1] } :
            n \in 0..Cardinality(BundleNames) }

InitFn ==
    /\ pc = "fn"
    /\ \/ \E s \in StatsInputs : fnIn = [NoInput EXCEPT !.op = "stats", !.stats = s]
       \/ \E a, b, c \in Bundles :
              fnIn = [NoInput EXCEPT !.op = "merge", !.a = a, !.b = b, !.c = c]
    /\ fnOut = NoOutput
    /\ i = 0
    /\ nrWindows = 1
    /\ procs = 1
    /\ traces = <<>>
    /\ winInitTrace = ""
    /\ id = 0
    /\ tasks = <<>>
    /\ lck = 0
    /\ stats = <<>>
    /\ nextWinInitTraceFile = ""
    /\ fs = ResultFiles
    /\ artifacts = {}
    /\ exitStatus = ""
    /\ wins = <<>>

FnUnchanged ==
    /\ UNCHANGED <<i, nrWindows, procs, traces, winInitTrace, id,
                   nextWinInitTraceFile, fs, artifacts, exitStatus, wins>>
    /\ UNCHANGED poolVars
    /\ UNCHANGED fnIn

\* traceStats = processStats(stats)
ApplyProcessStats ==
    /\ pc = "fn"
    /\ fnIn.op = "stats"
    /\ fnOut' = [fnOut EXCEPT !.tStats = processStats(fnIn.stats)]
    /\ pc' = "aggregated"
    /\ FnUnchanged

\* bestTrace, bTime, bpoint = getBest(traceStats)
ApplyGetBest ==
    /\ pc = "aggregated"
    /\ fnOut.tStats.raised = "none"
    /\ fnOut' = [fnOut EXCEPT !.best = getBest(fnOut.tStats)]
    /\ pc' = "selected"
    /\ FnUnchanged

\* The seed merge applied to a cumulative bundle c: first a, then b, then b
\* once more.
ApplyMergeA ==
    /\ pc = "fn"
    /\ fnIn.op = "merge"
    /\ fnOut' = [fnOut EXCEPT !.afterA = NextSeed(fnIn.c, fnIn.a)]
    /\ pc' = "mergedA"
    /\ FnUnchanged

ApplyMergeB ==
    /\ pc = "mergedA"
    /\ fnOut' = [fnOut EXCEPT !.afterB = NextSeed(fnOut.afterA, fnIn.b)]
    /\ pc' = "mergedB"
    /\ FnUnchanged

ApplyMergeAgain ==
    /\ pc = "mergedB"
    /\ fnOut' = [fnOut EXCEPT !.again = NextSeed(fnOut.afterB, fnIn.b)]
    /\ pc' = "remerged"
    /\ FnUnchanged

NextFn ==
    \/ ApplyProcessStats
    \/ ApplyGetBest
    \/ ApplyMergeA
    \/ ApplyMergeB
    \/ ApplyMergeAgain

SpecFn == InitFn /\ [][NextFn]_vars

\* ================================================================ claims
\* A run failed when its process exited non-zero or printed fewer than
\* three tokens; otherwise its result is usable.
Finished(k) == tasks[k].st \in {"wait", "append", "done"}

Failed(k) == Finished(k) /\ (tasks[k].returncode # 0 \/ Len(tasks[k].tokens) < 3)

Usable(k) == Finished(k) /\ ~Failed(k)

\* The window whose trace list task k was submitted from.
TaskWindow(k) ==
    IF tasks[k].tracefile = TraceName(i, tasks[k].id) THEN i
    ELSE CHOOSE w \in 0..MaxWindows : tasks[k].tracefile = TraceName(w, tasks[k].id)

\* The driver is past the barrier of the window its tasks belong to.
PastBarrier == pc \notin {"submit", "join", "fn", "aggregated", "selected",
                          "mergedA", "mergedB", "remerged"}

\* The driver has finished processing the window its tasks belong to.
WindowProcessed == Len(tasks) >= 1 /\ pc \in {"load", "done", "crashed"}

C2_BoundedConcurrency ==
    /\ Cardinality(InFlight) <= procs
    /\ Cardinality(Busy) <= procs

\* C2 witness: every worker slot holds an invocation in flight while another
\* trace waits in the queue.
C2_Witness ==
    /\ Cardinality(InFlight) = procs
    /\ \E k \in 1..Len(tasks) : tasks[k].st = "queued"

\* The total time a result list reports for identifier n, read off the list.
ReportedTime(s, n) == IntOf[s[CHOOSE x \in 1..Len(s) : s[x][1] = n][2][2]]

InputIds(s) == {s[x][1] : x \in 1..Len(s)}

\* C3: for a result list of N >= 1 usable entries, getBest returns an
\* identifier of the list, and the time it returns is the minimum of all the
\* reported times and the time of the returned identifier.
C3_BestIsMinimum ==
    (pc = "selected" /\ Len(fnIn.stats) >= 1) =>
        /\ fnOut.best.raised = "none"
        /\ fnOut.best.bpoint \in InputIds(fnIn.stats)
        /\ \A n \in InputIds(fnIn.stats) :
               fnOut.best.bTime <= ReportedTime(fnIn.stats, n)
        /\ fnOut.best.bTime = ReportedTime(fnIn.stats, fnOut.best.bpoint)
        /\ HasKey(fnOut.tStats.totalSec, fnOut.best.bpoint)

\* C3 witness: a winner was selected among three runs with different times,
\* and it is not the first one collected.
C3_Witness ==
    /\ pc = "selected"
    /\ Len(fnIn.stats) = 3
    /\ fnOut.best.bTime = 17
    /\ fnOut.best.bpoint # fnIn.stats[1][1]
    /\ \E n \in InputIds(fnIn.stats) : ReportedTime(fnIn.stats, n) = 42

\* C4: among the runs sharing the minimum time the smallest identifier wins,
\* whatever the order of the result list.
C4_TieBreakSmallestId ==
    (pc = "selected" /\ Len(fnIn.stats) >= 1) =>
        \A n \in InputIds(fnIn.stats) :
            ReportedTime(fnIn.stats, n) = fnOut.best.bTime => fnOut.best.bpoint <= n

\* C4 witness: times 42, 17, 17 for identifiers 0, 1, 2, collected with
\* identifier 2 first; identifier 1 is selected with time 17.
C4_Witness ==
    /\ pc = "selected"
    /\ Len(fnIn.stats) = 3
    /\ fnIn.stats[1][1] = 2
    /\ ReportedTime(fnIn.stats, 0) = 42
    /\ ReportedTime(fnIn.stats, 1) = 17
    /\ ReportedTime(fnIn.stats, 2) = 17
    /\ fnOut.best.bpoint = 1
    /\ fnOut.best.bTime = 17

\* The windows, among the first n, whose winning bundle has key k.
WinnersWith(k, n) == {w \in 1..n : HasKey(wins[w], k)}

Latest(S) == CHOOSE w \in S : \A v \in S : v <= w

\* d is the merge of the first n winning bundles, a later window overriding
\* an earlier one.
IsMergeOfWinners(d, n) ==
    /\ Keys(d) = UNION {Keys(wins[w]) : w \in 1..n}
    /\ \A k \in Keys(d) : DictGet(d, k) = DictGet(wins[Latest(WinnersWith(k, n))], k)

\* C5: the seed file of every window w >= 1 holds the merge of the winning
\* bundles of windows 0..w-1 (window 1's is window 0's winning bundle), the
\* runs of window i are all given the seed file of window i, and a seed
\* file loses no key of the seed file before it.
C5_SeedChainContent ==
    [](/\ \A w \in 1..Len(wins) :
              /\ SeedPath(w) \in DOMAIN fs
              /\ LET seed == JsonLoad(fs[SeedPath(w)])
                 IN  /\ IsMergeOfWinners(seed, w)
                     /\ w = 1 => DictEq(seed, wins[1])
                     /\ w > 1 => Keys(JsonLoad(fs[SeedPath(w - 1)])) \subseteq Keys(seed)
       /\ (i >= 1 /\ pc \in {"submit", "join", "process"}) =>
              /\ Len(wins) = i
              /\ winInitTrace = SeedPath(i)
              /\ \A k \in 1..Len(tasks) : tasks[k].initTrace = SeedPath(i))

\* C5 witness: a run of window 2 is in flight with a seed that keeps j2 from
\* window 0's winner and takes j1 from window 1's winner.
C5_Witness ==
    /\ i = 2
    /\ InFlight # {}
    /\ DictGet(wins[1], "j1") = "B"
    /\ DictGet(wins[2], "j1") = "A"
    /\ Keys(JsonLoad(fs[winInitTrace])) = {"j1", "j2"}
    /\ DictGet(JsonLoad(fs[winInitTrace]), "j1") = "A"
    /\ DictGet(JsonLoad(fs[winInitTrace]), "j2") = "B"

\* C6: merging a then b into a cumulative bundle gives the bundle that
\* merging the pre-merged bundle of a and b gives; applying b once more
\* changes nothing; merging a bundle into itself changes nothing.
C6_MergeAlgebra ==
    /\ pc \in {"mergedB", "remerged"} =>
           DictEq(fnOut.afterB, NextSeed(fnIn.c, NextSeed(fnIn.a, fnIn.b)))
    /\ pc = "remerged" => DictEq(fnOut.again, fnOut.afterB)
    /\ (pc \in {"mergedA", "mergedB", "remerged"} /\ fnIn.c = fnIn.a) =>
           DictEq(fnOut.afterA, fnIn.a)

\* C6 witness: three bundles that collide on a key were merged, and the last
\* one was applied twice.
C6_Witness ==
    /\ pc = "remerged"
    /\ fnIn.c = << <<"j1", "A">>, <<"j2", "A">> >>
    /\ fnIn.a = << <<"j2", "B">> >>
    /\ fnIn.b = << <<"j1", "B">> >>
    /\ fnOut.again = << <<"j1", "B">>, <<"j2", "B">> >>

\* C7: a simulator invocation is running only inside its own window's
\* startSim, and while the driver is at window i >= 1 every earlier window
\* has its winner selected and the seed file of window i is on disk.
C7_StrictWindowOrder ==
    /\ \A k \in 1..Len(tasks) :
           tasks[k].st \in {"run", "wait", "append"} =>
               pc \in {"submit", "join"} /\ TaskWindow(k) = i
    /\ \A k \in 1..Len(tasks) :
           TaskWindow(k) = i \/ (TaskWindow(k) = i - 1 /\ pc = "load")
    /\ i >= 1 => (Len(wins) >= i /\ SeedPath(i) \in DOMAIN fs)

\* C7 witness: an invocation of window 1 is in flight.
C7_Witness ==
    /\ i = 1
    /\ \E k \in 1..Len(tasks) : tasks[k].st = "run" /\ TaskWindow(k) = 1

\* C8 (as claimed): a batch with k failed runs aggregates, without an
\* exception, into a WindowStats of N-k entries.
C8_FailedRunsExcluded ==
    pc = "process" =>
        /\ processStats(stats).raised = "none"
        /\ Len(processStats(stats).totalSec)
               = Len(stats) - Cardinality({k \in 1..Len(tasks) : Failed(k)})

\* C9 (as claimed): when every run of a window failed, the driver stops with
\* a fatal condition and writes no seed file for the next window.
C9_NoViableCandidateFatal ==
    (WindowProcessed /\ \A k \in 1..Len(tasks) : Failed(k)) =>
        /\ pc = "crashed"
        /\ SeedPath(TaskWindow(1) + 1) \notin DOMAIN fs

\* C10 (as claimed): when a window has a usable run, the failure of other
\* runs of that window does not abort the driver.
C10_RunFailureRecoverable ==
    (WindowProcessed /\ (\E k \in 1..Len(tasks) : Usable(k))
                     /\ (\E k \in 1..Len(tasks) : Failed(k))) =>
        exitStatus \notin {"IndexError", "ValueError"}

\* The driver is about to advance the seed of window i and a file it needs
\* is not there: the winning trace's result file, or (i >= 1) the seed file
\* written at the end of window i-1.
SeedInputMissing ==
    /\ pc = "process"
    /\ processStats(stats).raised = "none"
    /\ getBest(processStats(stats)).raised = "none"
    /\ \/ getBest(processStats(stats)).bestTrace \notin DOMAIN fs
       \/ i >= 1 /\ nextWinInitTraceFile \notin DOMAIN fs

\* C11: when the winning trace's result file or the previous seed file is
\* missing in window i, the driver's next step is an abort with exit(-1) or
\* exit(-2) that writes no seed file for window i+1, changes no file and
\* removes no artifact already on disk, and starts no task; after the abort
\* nothing changes any more.
C11_SeedCorruptionFatal ==
    [][ /\ pc # "crashed"
        /\ (SeedInputMissing /\ pc' # "process") =>
               /\ pc' = "crashed"
               /\ exitStatus' \in {"exit(-1)", "exit(-2)"}
               /\ fs' = fs
               /\ SeedPath(i + 1) \notin DOMAIN fs'
               /\ artifacts \subseteq artifacts'
               /\ tasks' = tasks
               /\ i' = i
               /\ wins' = wins ]_vars

\* C11 witness: the driver aborted in window 1 or later because the seed
\* file of that window was gone, with the window's log and graphs written
\* and the result files still on disk.
C11_Witness ==
    /\ pc = "crashed"
    /\ exitStatus = "exit(-1)"
    /\ i >= 1
    /\ SeedPath(i) \notin DOMAIN fs
    /\ SeedPath(i + 1) \notin DOMAIN fs
    /\ WindowArtifacts(i) \subseteq artifacts
    /\ DOMAIN ResultFiles \subseteq DOMAIN fs

\* The keys of dict d in the order iteration visits them.
KeyOrder(d) == [n \in 1..Len(d) |-> d[n][1]]

IsAscending(q) == \A x, y \in 1..Len(q) : x < y => q[x] < q[y]

C13_AscendingKeyOrder ==
    (pc \in {"aggregated", "selected"} /\ fnOut.tStats.raised = "none") =>
        /\ IsAscending(KeyOrder(fnOut.tStats.totalSec))
        /\ IsAscending(KeyOrder(fnOut.tStats.meanUtil))
        /\ IsAscending(KeyOrder(fnOut.tStats.traceFile))

\* C14: in every window the k-th submitted task has identifier k-1, so the
\* identifiers are pairwise distinct and start again at 0 in each window;
\* once the submission loop is over they are exactly 0..N-1 for the N
\* traces of the window, and the result list only holds such identifiers.
C14_RunIdsContiguous ==
    [](/\ \A k \in 1..Len(tasks) : tasks[k].id = k - 1
       /\ pc \in {"join", "process"} => Len(tasks) = Len(traces)
       /\ \A x \in 1..Len(stats) : stats[x][1] \in 0..(Len(traces) - 1))

\* C14 witness: window 1 has submitted its two traces under identifiers 0
\* and 1, after window 0 had used the same identifiers.
C14_Witness ==
    /\ i = 1
    /\ pc = "join"
    /\ Len(tasks) = 2
    /\ tasks[1].id = 0
    /\ tasks[2].id = 1
    /\ Len(wins) = 1

\* C15 (as claimed): for nrWindows = W the driver runs the pool for the
\* windows 0..W-1 only, never for a window of index W or more, and it has
\* selected W winners when it ends.
C15_WindowSequence ==
    /\ Len(tasks) >= 1 => i < nrWindows
    /\ pc = "done" => Len(wins) = nrWindows

\* C16: the tasks of window 0, and only they, have an empty seed path and a
\* command line without -i; the tasks of window w >= 1 all have the path of
\* the seed file written at the end of window w-1, which is on disk, and
\* pass it after -i.
C16_SeedArgument ==
    [](/\ \A k \in 1..Len(tasks) :
              LET w == TaskWindow(k)
              IN  /\ (w = 0) <=> (tasks[k].initTrace = "")
                  /\ w >= 1 => /\ tasks[k].initTrace = SeedPath(w)
                                /\ SeedPath(w) \in DOMAIN fs
                                /\ Len(wins) >= w
                  /\ tasks[k].st # "queued" =>
                         tasks[k].exec =
                             <<"main.py", "-t", tasks[k].tracefile, "-f", "logs">>
                             \o (IF w = 0 THEN <<>> ELSE <<"-i", SeedPath(w)>>)
       /\ pc \in {"submit", "join", "process"} => ((winInitTrace = "") <=> (i = 0)))

\* C16 witness: two invocations of window 2 are in flight, both launched
\* with -i winInitTrace_2.json.
C16_Witness ==
    /\ i = 2
    /\ Cardinality(InFlight) = 2
    /\ \A k \in InFlight : tasks[k].exec[6] = "-i" /\ tasks[k].exec[7] = SeedPath(2)

\* C17: at most one worker is inside the append block and it is the holder
\* of the lock; the lock is held by nobody else, so a waiting worker is
\* never blocked by a finished one; every completed task has its entry in
\* the result list and the list has no other entries; the lock is free
\* whenever the driver is outside startSim.
C17_MutualExclusion ==
    [](/\ Cardinality({k \in 1..Len(tasks) : tasks[k].st = "append"}) <= 1
       /\ \A k \in 1..Len(tasks) : (tasks[k].st = "append") <=> (lck = k)
       /\ lck \in 0..Len(tasks)
       /\ Len(stats) = Cardinality({k \in 1..Len(tasks) : tasks[k].st = "done"})
       /\ \A k \in 1..Len(tasks) :
              tasks[k].st = "done" =>
                  \E x \in 1..Len(stats) : stats[x] = <<tasks[k].id, tasks[k].tokens>>
       /\ pc \notin {"submit", "join"} => lck = 0)

\* C17 witness: one worker holds the lock and appends while another one,
\* whose simulator has exited, waits for the lock.
C17_Witness ==
    /\ lck # 0
    /\ tasks[lck].st = "append"
    /\ \E k \in 1..Len(tasks) : tasks[k].st = "wait"

\* C18: a step that changes a file on disk is taken by the driver after the
\* barrier, with no task queued or running, and it only adds the seed file
\* of window i+1, which did not exist: no file already on disk, the seed
\* file of window i included, is modified or removed.
C18_SeedWriteOutsideWindow ==
    [][ fs' # fs =>
            /\ pc = "process"
            /\ \A k \in 1..Len(tasks) : tasks[k].st = "done"
            /\ tasks' = tasks
            /\ SeedPath(i + 1) \notin DOMAIN fs
            /\ DOMAIN fs' = DOMAIN fs \cup {SeedPath(i + 1)}
            /\ \A p \in DOMAIN fs : fs'[p] = fs[p] ]_vars

\* C18 witness: two seed files have been written and an invocation of
\* window 2 that was given the second one is in flight; the file of the
\* next window does not exist yet.
C18_Witness ==
    /\ i = 2
    /\ pc = "join"
    /\ InFlight # {}
    /\ \A k \in InFlight : tasks[k].initTrace = SeedPath(2)
    /\ {SeedPath(1), SeedPath(2)} \subseteq DOMAIN fs
    /\ SeedPath(3) \notin DOMAIN fs

\* C19: the k-th task runs the simulator on the k-th trace of the window's
\* list under identifier k-1, and every entry (n, tokens) of the result
\* list holds the output of the task launched on trace n+1.
C19_ResultAttribution ==
    [](/\ \A k \in 1..Len(tasks) :
              /\ k <= Len(traces)
              /\ tasks[k].tracefile = traces[k]
              /\ tasks[k].id = k - 1
              /\ tasks[k].st # "queued" => tasks[k].exec[3] = traces[k]
       /\ \A x \in 1..Len(stats) :
              LET k == stats[x][1] + 1
              IN  /\ k \in 1..Len(tasks)
                  /\ tasks[k].st = "done"
                  /\ stats[x][2] = tasks[k].tokens)

\* C19 witness: two runs with different outputs finished in the reverse of
\* their submission order; the first entry of the list is run 1's output.
C19_Witness ==
    /\ pc = "process"
    /\ Len(stats) = 2
    /\ stats[1][1] = 1
    /\ tasks[1].tokens # tasks[2].tokens
    /\ stats[1][2] = tasks[2].tokens
    /\ stats[2][2] = tasks[1].tokens

====
